---- MODULE Spec2Model ----
(***************************************************************************)
(* Model of scripts/patch_linux.py: the patch rules (regular expressions   *)
(* and replacement callables), apply_rule, and main's run over one         *)
(* app.asar.                                                               *)
(*                                                                         *)
(* Text is a sequence of tokens.  Every character that is not a word       *)
(* character (\w) is a token of its own; a run of word characters is one   *)
(* token or several adjacent tokens.  The regular expressions are matched  *)
(* token by token with Python's backtracking order (leftmost match, greedy *)
(* repetition, first alternative first), so that on these texts a match    *)
(* of the model is a match of re and conversely.                           *)
(***************************************************************************)
EXTENDS Naturals, Sequences, FiniteSets, TLC

(***************************************************************************)
(* Character classes of re: \w, \d, \s.                                    *)
(***************************************************************************)
Digits == {"0", "1", "3", "16"}

Spaces == {" "}

Punct ==
  {"(", ")", "{", "}", "[", "]", ".", ",", ";", "=", "&", "!", "?", ":",
   "<", ">", "-", "\""}

IsWord(t) == t \notin Punct /\ t \notin Spaces

InClass(cls, t) ==
  CASE cls = "w" -> IsWord(t)
    [] cls = "d" -> t \in Digits
    [] cls = "s" -> t \in Spaces

(***************************************************************************)
(* Pattern nodes.  A pattern is a sequence of nodes.                       *)
(*   lit : a run of literal tokens                                         *)
(*   rep : cls+ or cls* (greedy), captured under name n when n # ""        *)
(*   ref : backreference (?P=n) or \1                                      *)
(*   alt : (?:a|b)            opt : (?:a)?                                 *)
(***************************************************************************)
Lits(ts) == <<[k |-> "lit", s |-> ts, n |-> "", min |-> 0, a |-> <<>>, b |-> <<>>]>>

G(name) == [k |-> "rep", s |-> "w", n |-> name, min |-> 1, a |-> <<>>, b |-> <<>>]

W == [k |-> "rep", s |-> "w", n |-> "", min |-> 1, a |-> <<>>, b |-> <<>>]

D1 == [k |-> "rep", s |-> "d", n |-> "", min |-> 1, a |-> <<>>, b |-> <<>>]

S0 == [k |-> "rep", s |-> "s", n |-> "", min |-> 0, a |-> <<>>, b |-> <<>>]

S1 == [k |-> "rep", s |-> "s", n |-> "", min |-> 1, a |-> <<>>, b |-> <<>>]

Ref(name) == [k |-> "ref", s |-> "", n |-> name, min |-> 0, a |-> <<>>, b |-> <<>>]

Alt(x, y) == [k |-> "alt", s |-> "", n |-> "", min |-> 0, a |-> x, b |-> y]

Opt(x) == [k |-> "alt", s |-> "", n |-> "", min |-> 0, a |-> x, b |-> <<>>]

GroupNames ==
  {"item", "buf", "close", "cb", "setter", "cond", "render", "child",
   "stream", "el", "ref"}

NoGroups == [n \in GroupNames |-> <<>>]

NoMatch == [ok |-> FALSE, start |-> 0, end |-> 0, env |-> NoGroups]

(***************************************************************************)
(* The backtracking matcher of re: Match(pat, i, text, pos, env) matches   *)
(* pat[i..] at token pos and gives the first match in re's priority order. *)
(***************************************************************************)
RECURSIVE RunLen(_, _, _)
RunLen(cls, text, pos) ==
  IF pos <= Len(text) /\ InClass(cls, text[pos])
  THEN 1 + RunLen(cls, text, pos + 1)
  ELSE 0

HasAt(text, pos, s) ==
  /\ pos + Len(s) - 1 <= Len(text)
  /\ \A j \in 1..Len(s) : text[pos + j - 1] = s[j]

\* The first attempt if it matched, else the second.
OrElse(first, second) == IF first.ok THEN first ELSE second

RECURSIVE Match(_, _, _, _, _)
RECURSIVE TryRep(_, _, _, _, _, _)
Match(pat, i, text, pos, env) ==
  IF i > Len(pat)
  THEN [ok |-> TRUE, start |-> 0, end |-> pos, env |-> env]
  ELSE LET nd == pat[i] IN
    CASE nd.k = "lit" ->
           IF HasAt(text, pos, nd.s)
           THEN Match(pat, i + 1, text, pos + Len(nd.s), env)
           ELSE NoMatch
      [] nd.k = "rep" ->
           TryRep(pat, i, text, pos, env, RunLen(nd.s, text, pos))
      [] nd.k = "ref" ->
           IF HasAt(text, pos, env[nd.n])
           THEN Match(pat, i + 1, text, pos + Len(env[nd.n]), env)
           ELSE NoMatch
      [] nd.k = "alt" ->
           LET rest == SubSeq(pat, i + 1, Len(pat))
           IN OrElse(Match(nd.a \o rest, 1, text, pos, env),
                     Match(nd.b \o rest, 1, text, pos, env))

TryRep(pat, i, text, pos, env, len) ==
  IF len < pat[i].min
  THEN NoMatch
  ELSE LET env2 == IF pat[i].n = "" THEN env
                   ELSE [env EXCEPT ![pat[i].n] = SubSeq(text, pos, pos + len - 1)]
       IN OrElse(Match(pat, i + 1, text, pos + len, env2),
                 TryRep(pat, i, text, pos, env, len - 1))

\* Whether a match of pat can start with token t: what its first node accepts.
\* (Every pattern of the rules starts with a literal or with \w+.)
StartsWith(pat, t) ==
  IF pat[1].k = "lit" THEN t = pat[1].s[1] ELSE InClass(pat[1].s, t)

Least(ps) == CHOOSE p \in ps : \A q \in ps : p <= q

\* The match of pat that starts leftmost, among the match starts `starts`.
Leftmost(pat, text, starts) ==
  IF starts = {}
  THEN NoMatch
  ELSE [Match(pat, 1, text, Least(starts), NoGroups) EXCEPT !.start = Least(starts)]

\* pattern.search(text) from token `from` on.
SearchFrom(pat, text, from) ==
  Leftmost(pat, text,
           {p \in from..Len(text) :
              StartsWith(pat, text[p]) /\ Match(pat, 1, text, p, NoGroups).ok})

Search(pat, text) == SearchFrom(pat, text, 1).ok

\* len(list(pattern.finditer(text))): the non-overlapping matches, left to right.
RECURSIVE CountFrom(_, _, _)

CountAfter(pat, text, m) ==
  IF m.ok THEN 1 + CountFrom(pat, text, m.end) ELSE 0

CountFrom(pat, text, from) == CountAfter(pat, text, SearchFrom(pat, text, from))

FindIterCount(pat, text) == CountFrom(pat, text, 1)

(***************************************************************************)
(* Literal text shared by the patterns and the replacement callables.      *)
(***************************************************************************)
AndAnd == <<"&", "&">>

TypeIsReasoning == <<".", "type", "=", "=", "=", "\"", "reasoning", "\"">>

CallExplored == <<"(", "\"", "explored", "\"", ")">>

CallPreview == <<"(", "\"", "preview", "\"", ")">>

DotCurrent == <<".", "current", ";">>

AutoScrollInit == "__codexReasoningAutoScrollInit"

AutoScrollEnabled == "__codexReasoningAutoScrollEnabled"

(***************************************************************************)
(* The replacement callables: each maps the groups of a match to text.     *)
(***************************************************************************)
repl_exploration_drop_reasoning(m) ==
  <<"if", "(">> \o m.item \o TypeIsReasoning \o <<")", "{">>
    \o m.buf \o AndAnd \o m.close \o CallExplored \o <<"}">>
    \o m.buf \o AndAnd \o m.close \o CallExplored

repl_exploration_no_autocollapse(m) ==
  m.cb \o <<"=", "(", ")", "=", ">", "{">>
    \o m.cond \o AndAnd \o m.setter \o CallPreview \o <<"}">>

repl_show_reasoning_items(m) == m.render \o <<"=">> \o m.child

repl_no_autocollapse_reasoning(m) ==
  <<"if", "(", "!">> \o m.stream \o <<")", "{", "return", "}", "const", " ">>
    \o m.el \o <<"=">> \o m.ref \o DotCurrent

repl_autoscroll_user_scroll_flag(m) ==
  <<"const", " ">> \o m.el \o <<"=">> \o m.ref \o DotCurrent
    \o m.el \o AndAnd \o <<"(", "!">> \o m.el \o <<".", AutoScrollInit>>
    \o AndAnd \o <<"(">>
    \o m.el \o <<".", AutoScrollInit, "=", "1", ",">>
    \o m.el \o <<".", AutoScrollEnabled, "=", "1", ",">>
    \o m.el \o <<".", "addEventListener", "(", "\"", "scroll", "\"", ",",
                 "(", ")", "=", ">", "{">>
    \o m.el \o <<".", AutoScrollEnabled, "=">>
    \o m.el \o <<".", "scrollHeight", "-">> \o m.el \o <<".", "clientHeight", "-">>
    \o m.el \o <<".", "scrollTop", "<", "16">>
    \o <<"}", ",", "{", "passive", ":", "!", "0", "}", ")">>
    \o <<")", ",">>
    \o m.el \o <<".", AutoScrollEnabled>> \o AndAnd \o <<"(">>
    \o m.el \o <<".", "scrollTop", "=">> \o m.el \o <<".", "scrollHeight", ")", ")">>

(***************************************************************************)
(* The five rules of main's `patches`, in declaration order.               *)
(***************************************************************************)
exploration_continuation_drop_reasoning ==
  [name |-> "exploration_continuation_drop_reasoning",
   unpatched |->
     Lits(<<"if", "(">>) \o <<G("item")>> \o Lits(TypeIsReasoning)
       \o Lits(<<")", "{">>) \o <<G("buf")>> \o Lits(AndAnd)
       \o <<Alt(<<Ref("buf")>> \o Lits(<<".", "push", "(">>) \o <<Ref("item")>>
                  \o Lits(<<")", ";", "continue">>),
                Lits(<<"pt">> \o CallExplored))>>
       \o Lits(<<"}">>) \o <<Ref("buf")>> \o Lits(AndAnd) \o <<G("close")>>
       \o Lits(CallExplored),
   has_patched |-> TRUE,
   patched |->
     Lits(<<"if", "(">>) \o <<W>> \o Lits(TypeIsReasoning) \o Lits(<<")", "{">>)
       \o <<W>> \o Lits(AndAnd) \o <<G("close")>> \o Lits(CallExplored)
       \o Lits(<<"}">>) \o <<W>> \o Lits(AndAnd) \o <<Ref("close")>>
       \o Lits(CallExplored),
   expected_replacements |-> 1]

exploration_no_autocollapse_on_finish ==
  [name |-> "exploration_no_autocollapse_on_finish",
   unpatched |->
     <<G("cb")>> \o Lits(<<"=", "(", ")", "=", ">", "{">>) \o <<G("setter")>>
       \o Lits(<<"(">>) \o <<G("cond")>>
       \o Lits(<<"?", "\"", "preview", "\"", ":", "\"", "collapsed", "\"", ")", "}">>),
   has_patched |-> TRUE,
   patched |->
     <<G("cb")>> \o Lits(<<"=", "(", ")", "=", ">", "{">>) \o <<W>> \o Lits(AndAnd)
       \o <<W>> \o Lits(CallPreview) \o Lits(<<"}">>),
   expected_replacements |-> 1]

show_reasoning_items_in_log ==
  [name |-> "show_reasoning_items_in_log",
   unpatched |->
     <<G("render")>> \o Lits(<<"=">>) \o <<G("child")>> \o Lits(<<",">>)
       \o <<G("item")>> \o Lits(TypeIsReasoning) \o Lits(AndAnd) \o Lits(<<"(">>)
       \o <<Ref("render")>> \o Lits(<<"=", "null", ")">>),
   has_patched |-> TRUE,
   patched |->
     <<G("render")>> \o Lits(<<"=">>) \o <<G("child"), S0>> \o Lits(<<"}">>)
       \o <<S0>> \o Lits(<<"let">>) \o <<S1, W>> \o Lits(<<";">>) \o <<S0, W>>
       \o Lits(<<"[">>) \o <<D1>> \o Lits(<<"]", "!", "=", "=">>)
       \o <<Ref("render")>>,
   expected_replacements |-> 1]

reasoning_no_autocollapse_on_finish ==
  [name |-> "reasoning_no_autocollapse_on_finish",
   unpatched |->
     Lits(<<"if", "(", "!">>) \o <<G("stream")>> \o Lits(<<")", "{">>)
       \o <<G("setter")>> \o Lits(<<"(", "!", "1", ")", ";", "return", "}", "const", " ">>)
       \o <<G("el")>> \o Lits(<<"=">>) \o <<G("ref")>> \o Lits(DotCurrent),
   has_patched |-> TRUE,
   patched |->
     Lits(<<"if", "(", "!">>) \o <<G("stream")>>
       \o Lits(<<")", "{", "return", "}", "const", " ">>)
       \o <<G("el")>> \o Lits(<<"=">>) \o <<G("ref")>> \o Lits(DotCurrent),
   expected_replacements |-> 1]

reasoning_autoscroll_user_scroll_flag ==
  [name |-> "reasoning_autoscroll_user_scroll_flag",
   unpatched |->
     Lits(<<"const", " ">>) \o <<G("el")>> \o Lits(<<"=">>) \o <<G("ref")>>
       \o Lits(DotCurrent) \o <<Ref("el")>> \o Lits(AndAnd) \o Lits(<<"(">>)
       \o <<Opt(<<Ref("el")>> \o Lits(<<".", "scrollHeight", "-">>)
                  \o <<Ref("el")>> \o Lits(<<".", "clientHeight", "-">>)
                  \o <<Ref("el")>> \o Lits(<<".", "scrollTop", "<", "16", ")">>)
                  \o Lits(AndAnd) \o Lits(<<"(">>))>>
       \o <<Ref("el")>> \o Lits(<<".", "scrollTop", "=">>) \o <<Ref("el")>>
       \o Lits(<<".", "scrollHeight", ")">>),
   has_patched |-> TRUE,
   patched |-> Lits(<<AutoScrollInit>>),
   expected_replacements |-> 1]

patches ==
  <<exploration_continuation_drop_reasoning,
    exploration_no_autocollapse_on_finish,
    show_reasoning_items_in_log,
    reasoning_no_autocollapse_on_finish,
    reasoning_autoscroll_user_scroll_flag>>

\* rule.replacement called on one match.
Replacement(rule, m) ==
  CASE rule.name = "exploration_continuation_drop_reasoning" ->
         repl_exploration_drop_reasoning(m)
    [] rule.name = "exploration_no_autocollapse_on_finish" ->
         repl_exploration_no_autocollapse(m)
    [] rule.name = "show_reasoning_items_in_log" ->
         repl_show_reasoning_items(m)
    [] rule.name = "reasoning_no_autocollapse_on_finish" ->
         repl_no_autocollapse_reasoning(m)
    [] rule.name = "reasoning_autoscroll_user_scroll_flag" ->
         repl_autoscroll_user_scroll_flag(m)

\* rule.unpatched.subn(rule.replacement, text): every non-overlapping match
\* replaced, with the number of replacements.
RECURSIVE SubnFrom(_, _, _)

Replaced(rule, text, from, m, rest) ==
  [text |-> SubSeq(text, from, m.start - 1) \o Replacement(rule, m.env) \o rest.text,
   n |-> 1 + rest.n]

SubnAfter(rule, text, from, m) ==
  IF ~m.ok
  THEN [text |-> SubSeq(text, from, Len(text)), n |-> 0]
  ELSE Replaced(rule, text, from, m, SubnFrom(rule, text, m.end))

SubnFrom(rule, text, from) ==
  SubnAfter(rule, text, from, SearchFrom(rule.unpatched, text, from))

Subn(rule, text) == SubnFrom(rule, text, 1)

(***************************************************************************)
(* apply_rule(text, rule, dry_run=...).  A raised RuntimeError is the      *)
(* status "error".  `replaced` is the number of substitutions subn made    *)
(* (0 when subn was not called) and `line` the source line of the return   *)
(* or raise taken.                                                         *)
(***************************************************************************)
Outcome(text, status, replaced, line) ==
  [text |-> text, status |-> status, replaced |-> replaced, line |-> line]

\* apply_rule with line 71 reading `rule.patched.search(text)` alone.
apply_rule_patched_only(text, rule, dry_run) ==
  IF rule.has_patched /\ Search(rule.patched, text)
  THEN Outcome(text, "already", 0, 72)
  ELSE IF dry_run
  THEN IF FindIterCount(rule.unpatched, text) # rule.expected_replacements
       THEN Outcome(text, "error", 0, 79)
       ELSE Outcome(text, "would_apply", 0, 82)
  ELSE IF Subn(rule, text).n # rule.expected_replacements
       THEN Outcome(text, "error", Subn(rule, text).n, 88)
       ELSE Outcome(Subn(rule, text).text, "applied", Subn(rule, text).n, 91)

\* apply_rule with the dry-run branch returning the substituted text.
apply_rule_dry_substitutes(text, rule, dry_run) ==
  IF rule.has_patched /\ Search(rule.patched, text) /\ ~Search(rule.unpatched, text)
  THEN Outcome(text, "already", 0, 72)
  ELSE IF Subn(rule, text).n = 0 /\ rule.has_patched /\ Search(rule.patched, text)
  THEN Outcome(text, "already", 0, 86)
  ELSE IF Subn(rule, text).n # rule.expected_replacements
  THEN Outcome(text, "error", Subn(rule, text).n, 88)
  ELSE Outcome(Subn(rule, text).text, IF dry_run THEN "would_apply" ELSE "applied",
               Subn(rule, text).n, 91)

\* apply_rule with lines 78 and 87 reading `== 0` instead of
\* `!= rule.expected_replacements`.
apply_rule_any_count(text, rule, dry_run) ==
  IF rule.has_patched /\ Search(rule.patched, text) /\ ~Search(rule.unpatched, text)
  THEN Outcome(text, "already", 0, 72)
  ELSE IF dry_run
  THEN IF FindIterCount(rule.unpatched, text) = 0
       THEN Outcome(text, "error", 0, 79)
       ELSE Outcome(text, "would_apply", 0, 82)
  ELSE IF Subn(rule, text).n = 0
       THEN Outcome(text, "error", 0, 88)
       ELSE Outcome(Subn(rule, text).text, "applied", Subn(rule, text).n, 91)

\* apply_rule with `and rule.patched.search(text)` left out at lines 76 and 85:
\* a text without any unpatched match counts as patched.
apply_rule_absent_is_already(text, rule, dry_run) ==
  IF rule.has_patched /\ Search(rule.patched, text) /\ ~Search(rule.unpatched, text)
  THEN Outcome(text, "already", 0, 72)
  ELSE IF dry_run
  THEN LET count == FindIterCount(rule.unpatched, text)
       IN IF count = 0 /\ rule.has_patched
          THEN Outcome(text, "already", 0, 77)
          ELSE IF count # rule.expected_replacements
          THEN Outcome(text, "error", 0, 79)
          ELSE Outcome(text, "would_apply", 0, 82)
  ELSE LET r == Subn(rule, text)
       IN IF r.n = 0 /\ rule.has_patched
          THEN Outcome(text, "already", 0, 86)
          ELSE IF r.n # rule.expected_replacements
          THEN Outcome(text, "error", r.n, 88)
          ELSE Outcome(r.text, "applied", r.n, 91)

\* apply_rule without the check of lines 71-72.
apply_rule_no_primary(text, rule, dry_run) ==
  IF dry_run
  THEN LET count == FindIterCount(rule.unpatched, text)
       IN IF count = 0 /\ rule.has_patched /\ Search(rule.patched, text)
          THEN Outcome(text, "already", 0, 77)
          ELSE IF count # rule.expected_replacements
          THEN Outcome(text, "error", 0, 79)
          ELSE Outcome(text, "would_apply", 0, 82)
  ELSE LET r == Subn(rule, text)
       IN IF r.n = 0 /\ rule.has_patched /\ Search(rule.patched, text)
          THEN Outcome(text, "already", 0, 86)
          ELSE IF r.n # rule.expected_replacements
          THEN Outcome(text, "error", r.n, 88)
          ELSE Outcome(r.text, "applied", r.n, 91)

\* lines 76-82: the dry run, `count` the number of matches of line 75.
apply_rule_dry(text, rule, count) ==
  IF count = 0 /\ rule.has_patched /\ Search(rule.patched, text)
  THEN Outcome(text, "already", 0, 77)
  ELSE IF count # rule.expected_replacements
  THEN Outcome(text, "error", 0, 79)
  ELSE Outcome(text, "would_apply", 0, 82)

\* lines 85-91: the real run, `r` the new text and the count of line 84.
apply_rule_real(text, rule, r) ==
  IF r.n = 0 /\ rule.has_patched /\ Search(rule.patched, text)
  THEN Outcome(text, "already", 0, 86)
  ELSE IF r.n # rule.expected_replacements
  THEN Outcome(text, "error", r.n, 88)
  ELSE Outcome(r.text, "applied", r.n, 91)

apply_rule(text, rule, dry_run) ==
  IF rule.has_patched /\ Search(rule.patched, text) /\ ~Search(rule.unpatched, text)
  THEN Outcome(text, "already", 0, 72)
  ELSE IF dry_run
  THEN apply_rule_dry(text, rule, FindIterCount(rule.unpatched, text))
  ELSE apply_rule_real(text, rule, Subn(rule, text))

\* lines 265-269 as a function of the bundle text: the loop over `patches`,
\* with the statuses collected and the name of the rule that raised, if one did.
RECURSIVE Loop(_, _, _, _)

LoopStep(t, n, dry_run, sts, r) ==
  IF r.status = "error"
  THEN [text |-> t, statuses |-> sts, error |-> patches[n].name]
  ELSE Loop(r.text, n + 1, dry_run, Append(sts, <<patches[n].name, r.status>>))

Loop(t, n, dry_run, sts) ==
  IF n > Len(patches)
  THEN [text |-> t, statuses |-> sts, error |-> ""]
  ELSE LoopStep(t, n, dry_run, sts, apply_rule(t, patches[n], dry_run))

RunRules(original, dry_run) == Loop(original, 1, dry_run, <<>>)

(***************************************************************************)
(* Bundle texts.  A bundle is five regions, one per rule, separated by     *)
(* ";".  Each region is in one of a few shapes: the rule's unpatched form  *)
(* (U...), its patched form (P), absent (N), the unpatched form twice (D), *)
(* or both forms (B).  The fourth and fifth rules share the statement      *)
(* `const e=g.current;`, as they do in the real bundle.                    *)
(***************************************************************************)
Semi == <<";">>

Exploration(inner, close) ==
  <<"if", "(", "e">> \o TypeIsReasoning \o <<")", "{", "b">> \o AndAnd \o inner
    \o <<"}", "b">> \o AndAnd \o <<close>> \o CallExplored

PushContinue == <<"b", ".", "push", "(", "e", ")", ";", "continue">>

\* Ua, Up: unpatched, the function after the block named `ht` or `pt`.
\* Ub: the unpatched pattern's second alternative.  B: Up as the rule rewrites it.
Region1(v) ==
  CASE v = "Ua" -> Exploration(PushContinue, "ht")
    [] v = "Up" -> Exploration(PushContinue, "pt")
    [] v = "Ub" -> Exploration(<<"pt">> \o CallExplored, "ht")
    [] v = "B"  -> Exploration(<<"pt">> \o CallExplored, "pt")
    [] v = "P"  -> Exploration(<<"ht">> \o CallExplored, "ht")
    [] v = "D"  -> Exploration(PushContinue, "ht") \o Semi
                     \o Exploration(PushContinue, "ht")
    [] v = "N"  -> <<>>

OnFinishUnpatched ==
  <<"h", "=", "(", ")", "=", ">", "{", "s", "(", "c", "?", "\"", "preview", "\"",
    ":", "\"", "collapsed", "\"", ")", "}">>

OnFinishPatched ==
  <<"h", "=", "(", ")", "=", ">", "{", "c">> \o AndAnd \o <<"s">> \o CallPreview
    \o <<"}">>

Region2(v) ==
  CASE v = "U" -> OnFinishUnpatched
    [] v = "P" -> OnFinishPatched
    [] v = "B" -> OnFinishUnpatched \o Semi \o OnFinishPatched
    [] v = "D" -> OnFinishUnpatched \o Semi \o OnFinishUnpatched
    [] v = "N" -> <<>>

RenderNull(child) ==
  <<"r", "=", child, ",", "e">> \o TypeIsReasoning \o AndAnd
    \o <<"(", "r", "=", "null", ")">>

\* What follows the assignment in the real bundle, and the patched matcher needs.
LetAfter == <<"}", "let", " ", "x", ";", "y", "[", "3", "]", "!", "=", "=", "r">>

ScrollToEnd == <<"e", "&", "&", "(", "e", ".", "scrollTop", "=", "e", ".", "scrollHeight", ")">>

ScrollToEndNearBottom ==
  <<"e", "&", "&", "(", "e", ".", "scrollHeight", "-", "e", ".", "clientHeight", "-",
    "e", ".", "scrollTop", "<", "16", ")", "&", "&", "(",
    "e", ".", "scrollTop", "=", "e", ".", "scrollHeight", ")">>

\* Uc: unpatched, followed by the text the patched matcher needs.
\* Ux: unpatched, followed by other text.
\* J : unpatched with child `const`, followed by ` e=g.current;e&&(...)`: the
\*     replacement `r=const` and the text after it read `const e=g.current;...`.
Region3(v) ==
  CASE v = "Uc" -> RenderNull("c") \o LetAfter
    [] v = "Ux" -> RenderNull("c")
    [] v = "P"  -> <<"r", "=", "c">> \o LetAfter
    [] v = "D"  -> RenderNull("c") \o LetAfter \o Semi \o RenderNull("c") \o LetAfter
    [] v = "J"  -> RenderNull("const") \o <<" ", "e", "=", "g">> \o DotCurrent
                     \o ScrollToEnd
    [] v = "N"  -> <<>>

ConstEl == <<"const", " ", "e", "=", "g">> \o DotCurrent

OnStreamEnd ==
  <<"if", "(", "!", "s", ")", "{", "f", "(", "!", "1", ")", ";", "return", "}">>

\* The fourth rule's region ends in the `const e=g.current;` that Region5 starts with.
Region4(v) ==
  CASE v = "U" -> OnStreamEnd
    [] v = "P" -> <<"if", "(", "!", "s", ")", "{", "return", "}">>
    [] v = "D" -> OnStreamEnd \o ConstEl \o OnStreamEnd
    [] v = "N" -> <<>>

Region5(v) ==
  CASE v = "Ua" -> ConstEl \o ScrollToEnd
    [] v = "Ub" -> ConstEl \o ScrollToEndNearBottom
    [] v = "P"  -> repl_autoscroll_user_scroll_flag(
                     [NoGroups EXCEPT !.el = <<"e">>, !.ref = <<"g">>])
    [] v = "D"  -> ConstEl \o ScrollToEnd \o Semi \o ConstEl \o ScrollToEnd
    [] v = "N"  -> ConstEl

Bundle(v) ==
  Region1(v[1]) \o Semi \o Region2(v[2]) \o Semi \o Region3(v[3]) \o Semi
    \o Region4(v[4]) \o Region5(v[5])

(***************************************************************************)
(* The bundles a run may start from: every region unpatched, with at most  *)
(* MaxDeviations regions in another shape, or every region patched, with   *)
(* at most MaxPatchedDeviations regions in another shape.  (A later run    *)
(* starts from whatever bundle the run before it left in the archive.)     *)
(***************************************************************************)
MaxDeviations == 1

MaxPatchedDeviations == 0

MaxRuns == 2

Shapes ==
  <<{"Ua", "Up", "Ub", "B", "P", "D", "N"},
    {"U", "P", "B", "D", "N"},
    {"Uc", "Ux", "P", "D", "J", "N"},
    {"U", "P", "D", "N"},
    {"Ua", "Ub", "P", "D", "N"}>>

AllUnpatched == <<"Ua", "U", "Uc", "U", "Ua">>

AllPatched == <<"P", "P", "P", "P", "P">>

Deviations(v, base) == Cardinality({i \in 1..5 : v[i] # base[i]})

Bundles ==
  {Bundle(v) : v \in
     {w \in {<<a, b, c, d, e>> : a \in Shapes[1], b \in Shapes[2], c \in Shapes[3],
                                 d \in Shapes[4], e \in Shapes[5]} :
        \/ Deviations(w, AllUnpatched) <= MaxDeviations
        \/ Deviations(w, AllPatched) <= MaxPatchedDeviations}}

(***************************************************************************)
(* Files.  An archive is modelled by the tree packed in it: the bundle     *)
(* text and whether the tree holds the .beautified.js copy.                *)
(***************************************************************************)
NoFile == [exists |-> FALSE, bundle |-> <<>>, beautified |-> FALSE]

Tree(bundle, beautified) ==
  [exists |-> TRUE, bundle |-> bundle, beautified |-> beautified]

\* A file opened for writing and not written to its end: write_bytes truncates
\* the file and then writes, so until the write has ended the file holds a
\* prefix of the bytes, which is no archive.
PartialFile == [exists |-> TRUE, bundle |-> <<>>, beautified |-> FALSE]

NoArgs == [dry_run |-> FALSE, no_beautify |-> FALSE, keep_extracted |-> FALSE]

NoCall ==
  [rule |-> 0, text |-> <<>>, dry_run |-> FALSE, status |-> "", out |-> <<>>,
   replaced |-> 0, line |-> 0,
   found |-> FALSE, evidence |-> FALSE, matches |-> 0, counted |-> 0]

VARIABLES
  app_asar,      \* the archive at args.asar
  backups,       \* the backup archives written, one per run that wrote one
  tmp_out_asar,  \* the repacked archive in the temp directory
  extracted,     \* the extracted tree in the TemporaryDirectory
  kept,          \* the keep_dir trees left behind by --keep-extracted
  args,          \* the parsed command line
  run,           \* number of the current run of main
  pc,            \* where main is
  original_js,   \* main's locals
  text,
  statuses,
  rule,          \* index in `patches` of the rule the loop is at
  stdout,        \* the lines printed by this run
  result,        \* "running", "returned" (exit status 0) or "raised"
  error,         \* what raised: a rule's name or a step
  start_asar,    \* the archive as it was when this run started
  call,          \* the last call of apply_rule: its arguments and what it gave
  steps,         \* the steps this run has completed, in order
  previous       \* how the run before this one ended ("" for the first run)

vars ==
  <<app_asar, backups, tmp_out_asar, extracted, kept, args, run, pc, original_js,
    text, statuses, rule, stdout, result, error, start_asar, call, steps, previous>>

files == <<app_asar, backups, tmp_out_asar, kept, previous>>

locals == <<original_js, text, statuses, rule, call>>

Init ==
  /\ app_asar \in {Tree(b, FALSE) : b \in Bundles}
  /\ backups = <<>>
  /\ tmp_out_asar = NoFile
  /\ extracted = NoFile
  /\ kept = <<>>
  /\ args = NoArgs
  /\ run = 1
  /\ pc = "start"
  /\ original_js = <<>>
  /\ text = <<>>
  /\ statuses = <<>>
  /\ rule = 1
  /\ stdout = <<>>
  /\ result = "running"
  /\ error = ""
  /\ start_asar = app_asar
  /\ call = NoCall
  /\ steps = <<>>
  /\ previous = ""

\* An exception propagates out of the `with` block.
Raise(what) ==
  /\ pc' = "unwind"
  /\ result' = "raised"
  /\ error' = what

\* `return 0` inside the `with` block.
Return0 ==
  /\ pc' = "unwind"
  /\ result' = "returned"
  /\ error' = ""

\* A step completed: main goes on at `next`.
Goto(step, next) ==
  /\ pc' = next
  /\ steps' = Append(steps, step)

\* lines 131-256: the command line is parsed.
ParseArgs ==
  /\ pc = "start"
  /\ args' \in [dry_run : BOOLEAN, no_beautify : BOOLEAN, keep_extracted : BOOLEAN]
  /\ pc' = "extract"
  /\ UNCHANGED <<files, extracted, run, locals, stdout, result, error, start_asar, steps>>

\* lines 258-265: asar extract into the temp directory, the bundle is read.
\* asar extract fails on a file that is no archive.
Extract ==
  /\ pc = "extract"
  /\ \E ok \in (IF app_asar = PartialFile THEN {FALSE} ELSE BOOLEAN) :
       IF ok
       THEN /\ extracted' = app_asar
            /\ original_js' = app_asar.bundle
            /\ text' = app_asar.bundle
            /\ statuses' = <<>>
            /\ Goto("extract", "rules")
            /\ UNCHANGED <<result, error, rule, call>>
       ELSE /\ Raise("asar extract")
            /\ UNCHANGED <<extracted, locals, steps>>
  /\ UNCHANGED <<files, args, run, stdout, start_asar>>

\* What the loop remembers of a call of apply_rule: the arguments, what the
\* call gave (r), and what the rule's matchers give on the text of the call:
\*   found    - rule.unpatched.search(text) finds a match
\*   evidence - rule.patched is not None and rule.patched.search(text)
\*   matches  - the number of matches of rule.unpatched.finditer(text)
\*   counted  - the count the call's mode takes: finditer's at line 75 in a
\*              dry run, subn's at line 84 in a real run
Observed(n, t, dry_run, r, matches) ==
  [rule |-> n, text |-> t, dry_run |-> dry_run, status |-> r.status, out |-> r.text,
   replaced |-> r.replaced, line |-> r.line,
   found |-> Search(patches[n].unpatched, t),
   evidence |-> patches[n].has_patched /\ Search(patches[n].patched, t),
   matches |-> matches,
   counted |-> IF dry_run THEN matches ELSE Subn(patches[n], t).n]

Called(n, t, dry_run, r) ==
  Observed(n, t, dry_run, r, FindIterCount(patches[n].unpatched, t))

\* ApplyRule with the RuntimeError of apply_rule caught and the rule skipped.
ApplyRuleSkipFailed ==
  /\ pc = "rules"
  /\ rule <= Len(patches)
  /\ \E r \in {apply_rule(text, patches[rule], args.dry_run)} :
       /\ call' = Called(rule, text, args.dry_run, r)
       /\ text' = r.text
       /\ statuses' = IF r.status = "error" THEN statuses
                      ELSE Append(statuses, <<patches[rule].name, r.status>>)
       /\ rule' = rule + 1
  /\ UNCHANGED <<original_js, pc, result, error, files, extracted, args, run, stdout,
                 start_asar, steps>>

\* lines 267-269: one iteration of the loop over `patches`.
ApplyRule ==
  /\ pc = "rules"
  /\ rule <= Len(patches)
  /\ \E r \in {apply_rule(text, patches[rule], args.dry_run)} :
       /\ call' = Called(rule, text, args.dry_run, r)
       /\ IF r.status = "error"
          THEN /\ Raise(patches[rule].name)
               /\ UNCHANGED <<original_js, text, statuses, rule>>
          ELSE /\ text' = r.text
               /\ statuses' = Append(statuses, <<patches[rule].name, r.status>>)
               /\ rule' = rule + 1
               /\ UNCHANGED <<original_js, pc, result, error>>
  /\ UNCHANGED <<files, extracted, args, run, stdout, start_asar, steps>>

\* lines 271-272: after the loop, one line per status.
PrintStatuses ==
  /\ pc = "rules"
  /\ rule > Len(patches)
  /\ stdout' = stdout \o statuses
  /\ Goto("rules", "printed")
  /\ UNCHANGED <<files, extracted, args, run, locals, result, error, start_asar>>

\* lines 274-275
DryRunReturn ==
  /\ pc = "printed"
  /\ args.dry_run
  /\ Return0
  /\ UNCHANGED <<files, extracted, args, run, locals, stdout, start_asar, steps>>

\* NoChangesReturn without the return: the unchanged text is written all the same.
NoChangesWritten ==
  /\ pc = "printed"
  /\ ~args.dry_run
  /\ text = original_js
  /\ extracted' = [extracted EXCEPT !.bundle = text]
  /\ Goto("write bundle", "node_check")
  /\ UNCHANGED <<files, args, run, locals, stdout, result, error, start_asar>>

\* lines 277-279
NoChangesReturn ==
  /\ pc = "printed"
  /\ ~args.dry_run
  /\ text = original_js
  /\ stdout' = Append(stdout, <<"No changes to write (all patches already applied).">>)
  /\ Return0
  /\ UNCHANGED <<files, extracted, args, run, locals, start_asar, steps>>

\* WriteBundle without the test of line 277: a real run writes the bundle
\* whether or not the text changed.
WriteBundleAlways ==
  /\ pc = "printed"
  /\ ~args.dry_run
  /\ extracted' = [extracted EXCEPT !.bundle = text]
  /\ Goto("write bundle", "node_check")
  /\ UNCHANGED <<files, args, run, locals, stdout, result, error, start_asar>>

\* line 281: bundle.write_text(text)
WriteBundle ==
  /\ pc = "printed"
  /\ ~args.dry_run
  /\ text # original_js
  /\ extracted' = [extracted EXCEPT !.bundle = text]
  /\ Goto("write bundle", "node_check")
  /\ UNCHANGED <<files, args, run, locals, stdout, result, error, start_asar>>

\* NodeCheck with the exit status of node --check not looked at.
NodeCheckUnchecked ==
  /\ pc = "node_check"
  /\ pc' = "beautify"
  /\ UNCHANGED <<files, extracted, args, run, locals, stdout, start_asar, result, error,
                 steps>>

\* line 282: node --check on the written bundle
NodeCheck ==
  /\ pc = "node_check"
  /\ \E ok \in BOOLEAN :
       IF ok
       THEN /\ Goto("node --check", "beautify")
            /\ UNCHANGED <<result, error>>
       ELSE /\ Raise("node --check")
            /\ UNCHANGED steps
  /\ UNCHANGED <<files, extracted, args, run, locals, stdout, start_asar>>

\* Beautify with a failure of js-beautify ignored: the run goes on to asar pack.
BeautifyBestEffort ==
  /\ pc = "beautify"
  /\ pc' = "pack"
  /\ IF args.no_beautify
     THEN UNCHANGED <<extracted, steps>>
     ELSE \E ok \in BOOLEAN :
            IF ok
            THEN /\ extracted' = [extracted EXCEPT !.beautified = TRUE]
                 /\ steps' = Append(steps, "js-beautify")
            ELSE UNCHANGED <<extracted, steps>>
  /\ UNCHANGED <<files, args, run, locals, stdout, start_asar, result, error>>

\* lines 284-300: js-beautify writes the .beautified.js copy, unless --no-beautify
Beautify ==
  /\ pc = "beautify"
  /\ IF args.no_beautify
     THEN /\ pc' = "pack"
          /\ UNCHANGED <<extracted, result, error, steps>>
     ELSE \E ok \in BOOLEAN :
            IF ok
            THEN /\ extracted' = [extracted EXCEPT !.beautified = TRUE]
                 /\ Goto("js-beautify", "pack")
                 /\ UNCHANGED <<result, error>>
            ELSE /\ Raise("js-beautify")
                 /\ UNCHANGED <<extracted, steps>>
  /\ UNCHANGED <<files, args, run, locals, stdout, start_asar>>

\* Pack with the backup (line 304) written before asar pack runs.
PackAfterBackup ==
  /\ pc = "pack"
  /\ backups' = Append(backups, [run |-> run, content |-> app_asar])
  /\ \E ok \in BOOLEAN :
       IF ok
       THEN /\ tmp_out_asar' = extracted
            /\ Goto("asar pack", "overwrite")
            /\ UNCHANGED <<result, error>>
       ELSE /\ Raise("asar pack")
            /\ UNCHANGED <<tmp_out_asar, steps>>
  /\ UNCHANGED <<app_asar, kept, previous, extracted, args, run, locals, stdout,
                 start_asar>>

\* Pack with the archive itself as the output of asar pack.
PackInPlace ==
  /\ pc = "pack"
  /\ \E ok \in BOOLEAN :
       IF ok
       THEN /\ tmp_out_asar' = extracted
            /\ app_asar' = extracted
            /\ Goto("asar pack", "backup")
            /\ UNCHANGED <<result, error>>
       ELSE /\ Raise("asar pack")
            /\ app_asar' = PartialFile
            /\ UNCHANGED <<tmp_out_asar, steps>>
  /\ UNCHANGED <<backups, kept, previous, extracted, args, run, locals, stdout,
                 start_asar>>

\* line 302: asar pack of the extracted tree into tmp_out_asar
Pack ==
  /\ pc = "pack"
  /\ \E ok \in BOOLEAN :
       IF ok
       THEN /\ tmp_out_asar' = extracted
            /\ Goto("asar pack", "backup")
            /\ UNCHANGED <<result, error>>
       ELSE /\ Raise("asar pack")
            /\ UNCHANGED <<tmp_out_asar, steps>>
  /\ UNCHANGED <<app_asar, backups, kept, previous, extracted, args, run, locals,
                 stdout, start_asar>>

\* Backup with a failure of the copy ignored: the run goes on to the overwrite.
BackupUnchecked ==
  /\ pc = "backup"
  /\ \E ok \in BOOLEAN :
       backups' = IF ok THEN Append(backups, [run |-> run, content |-> app_asar])
                  ELSE backups
  /\ Goto("backup", "overwrite")
  /\ UNCHANGED <<app_asar, tmp_out_asar, kept, previous, extracted, args, run, locals,
                 stdout, start_asar, result, error>>

\* line 304: backup_asar.write_bytes(app_asar.read_bytes())
Backup ==
  /\ pc = "backup"
  /\ \E ok \in BOOLEAN :
       IF ok
       THEN /\ backups' = Append(backups, [run |-> run, content |-> app_asar])
            /\ Goto("backup", "overwrite")
            /\ UNCHANGED <<result, error>>
       ELSE /\ Raise("backup")
            /\ UNCHANGED <<backups, steps>>
  /\ UNCHANGED <<app_asar, tmp_out_asar, kept, previous, extracted, args, run, locals,
                 stdout, start_asar>>

\* line 305: app_asar.write_bytes(tmp_out_asar.read_bytes()) opens the archive
\* for writing, which truncates it.
Overwrite ==
  /\ pc = "overwrite"
  /\ app_asar' = PartialFile
  /\ Goto("overwrite", "overwriting")
  /\ UNCHANGED <<backups, tmp_out_asar, extracted, kept, previous, args, run, locals,
                 stdout, result, error, start_asar>>

\* line 305, the write itself: it reaches its end, or it fails (OSError) and
\* leaves the archive as far as it was written.
OverwriteWritten ==
  /\ pc = "overwriting"
  /\ \E ok \in BOOLEAN :
       IF ok
       THEN /\ app_asar' = tmp_out_asar
            /\ pc' = "keep"
            /\ UNCHANGED <<result, error>>
       ELSE /\ Raise("overwrite")
            /\ UNCHANGED app_asar
  /\ UNCHANGED <<backups, tmp_out_asar, extracted, kept, previous, args, run, locals,
                 stdout, start_asar, steps>>

\* lines 307-312
KeepExtracted ==
  /\ pc = "keep"
  /\ IF args.keep_extracted
     THEN \E keep_dir_exists \in BOOLEAN :
            IF keep_dir_exists
            THEN /\ Raise("Refusing to overwrite")
                 /\ UNCHANGED <<kept, extracted, stdout, steps>>
            ELSE /\ kept' = Append(kept, [run |-> run, tree |-> extracted])
                 /\ extracted' = NoFile
                 /\ stdout' = Append(stdout, <<"kept_extracted">>)
                 /\ Goto("keep", "leave")
                 /\ UNCHANGED <<result, error>>
     ELSE /\ pc' = "leave"
          /\ UNCHANGED <<kept, extracted, stdout, result, error, steps>>
  /\ UNCHANGED <<app_asar, backups, tmp_out_asar, previous, args, run, locals,
                 start_asar>>

\* line 258: the `with` block is left (its end is reached, or a return or an
\* exception passes through it) and the TemporaryDirectory is deleted.
LeaveWith ==
  /\ pc \in {"unwind", "leave"}
  /\ extracted' = NoFile
  /\ pc' = IF pc = "leave" THEN "summary" ELSE "exit"
  /\ UNCHANGED <<files, args, run, locals, stdout, result, error, start_asar, steps>>

\* lines 314-320
Summary ==
  /\ pc = "summary"
  /\ stdout' = Append(stdout, <<"PATCHED">>)
  /\ pc' = "exit"
  /\ result' = "returned"
  /\ UNCHANGED <<files, extracted, args, run, locals, error, start_asar, steps>>

Did(step) == \E i \in 1..Len(steps) : steps[i] = step

\* How a run that has ended ended.
Ended ==
  IF result = "raised" THEN "raised"
  ELSE IF args.dry_run THEN "dry run"
  ELSE IF Did("overwrite") THEN "patched"
  ELSE "no changes"

\* The script is run again on the archive as the last run left it.
RunAgain ==
  /\ pc = "exit"
  /\ run < MaxRuns
  /\ previous' = Ended
  /\ run' = run + 1
  /\ pc' = "start"
  /\ args' = NoArgs
  /\ tmp_out_asar' = NoFile
  /\ original_js' = <<>>
  /\ text' = <<>>
  /\ statuses' = <<>>
  /\ rule' = 1
  /\ stdout' = <<>>
  /\ result' = "running"
  /\ error' = ""
  /\ start_asar' = app_asar
  /\ call' = NoCall
  /\ steps' = <<>>
  /\ UNCHANGED <<app_asar, backups, extracted, kept>>

Next ==
  \/ ParseArgs
  \/ Extract
  \/ ApplyRule
  \/ PrintStatuses
  \/ DryRunReturn
  \/ NoChangesReturn
  \/ WriteBundle
  \/ NodeCheck
  \/ Beautify
  \/ Pack
  \/ Backup
  \/ Overwrite
  \/ OverwriteWritten
  \/ KeepExtracted
  \/ LeaveWith
  \/ Summary
  \/ RunAgain

Spec == Init /\ [][Next]_vars

(***************************************************************************)
(* Properties.                                                             *)
(***************************************************************************)
RuleNames == {patches[n].name : n \in 1..Len(patches)}

\* apply_rule has just been called at line 268 and `call` is that call.
JustCalled ==
  /\ call.rule # 0
  /\ \/ pc = "rules"
     \/ pc = "unwind" /\ result = "raised" /\ error = patches[call.rule].name

\* A rule raised in this run.
RuleFailed == result = "raised" /\ error \in RuleNames

BackedUp == \E i \in 1..Len(backups) : backups[i].run = run

\* C1 (as claimed): after a real-run apply_rule returned "applied", apply_rule
\* with the same rule on the returned text returns "already" and that text.
C1_Idempotent ==
  (JustCalled /\ ~call.dry_run /\ call.status = "applied")
    => \A again \in {apply_rule(call.out, patches[call.rule], FALSE)} :
         again.status = "already" /\ again.text = call.out

\* Both matchers of the called rule match the text of the call.
BothMatch == call.evidence /\ call.found

\* C2 (as claimed): when the unpatched and the patched matcher of a rule both
\* match the text, apply_rule raises and the run is aborted.
C2_BothMatchRaises ==
  (JustCalled /\ BothMatch)
    => call.status = "error" /\ result = "raised"

\* C2 (amended): when both matchers match, apply_rule never returns "already";
\* it returns "would_apply" (dry run) or "applied" (real run) when the number
\* of unpatched matches is expected_replacements, and raises otherwise.
C2_BothMatchApplies ==
  (JustCalled /\ BothMatch)
    => \A count \in {call.matches} :
         IF count = patches[call.rule].expected_replacements
         THEN call.status = (IF call.dry_run THEN "would_apply" ELSE "applied")
         ELSE call.status = "error" /\ result = "raised"

C2_Witness ==
  /\ JustCalled
  /\ call.status = "applied"
  /\ BothMatch

\* C3: when the number of unpatched matches is neither 0 nor
\* expected_replacements, apply_rule raises in dry-run and in real-run mode, and
\* main's text, the bundle file and the archive are as they were before the call.
C3_CountEnforced ==
  /\ JustCalled
       => \A count \in {call.matches} :
            (count # 0 /\ count # patches[call.rule].expected_replacements)
              => /\ call.status = "error"
                 /\ pc = "unwind" /\ result = "raised"
                 /\ text = call.text
                 /\ FindIterCount(patches[call.rule].unpatched, text) = count
                 /\ extracted.bundle = original_js
  /\ RuleFailed
       => /\ ~Did("write bundle")
          /\ app_asar = start_asar
          /\ extracted.exists => extracted = start_asar

C3_Witness ==
  /\ JustCalled
  /\ ~call.dry_run
  /\ call.status = "error"
  /\ call.matches
       = patches[call.rule].expected_replacements + 1

Before(a, b) ==
  \E i, j \in 1..Len(steps) : i < j /\ steps[i] = a /\ steps[j] = b

\* The steps that write the bundle, the backup or the archive, or run a tool
\* on what was written.
Persistence ==
  {"write bundle", "node --check", "js-beautify", "asar pack", "backup", "overwrite"}

NothingPersisted ==
  /\ \A i \in 1..Len(steps) : steps[i] \notin Persistence
  /\ app_asar = start_asar
  /\ ~BackedUp
  /\ tmp_out_asar = NoFile
  /\ extracted.exists => extracted = start_asar

\* C4: the archive is overwritten only after all rules succeeded, node --check
\* succeeded, asar pack succeeded and the backup of the original archive was
\* written, in that order; until then, and when one of them fails, the archive
\* is the original.
C4_OverwriteLast ==
  /\ Did("overwrite")
       => /\ Len(statuses) = Len(patches)
          /\ Before("rules", "node --check")
          /\ Before("node --check", "asar pack")
          /\ Before("asar pack", "backup")
          /\ Before("backup", "overwrite")
          /\ \E i \in 1..Len(backups) :
               backups[i].run = run /\ backups[i].content = start_asar
  /\ ~Did("overwrite") => app_asar = start_asar
  /\ (result = "raised" /\ error \in RuleNames \cup {"node --check", "asar pack", "backup"})
       => app_asar = start_asar

C4_Witness ==
  /\ Did("overwrite")
  /\ app_asar # start_asar
  /\ app_asar = tmp_out_asar
  /\ pc = "exit"

\* C5: when asar pack fails after the rules were applied, the archive is
\* unchanged and this run has written no backup.
C5_PackFailure ==
  (result = "raised" /\ error = "asar pack")
    => /\ Len(statuses) = Len(patches)
       /\ app_asar = start_asar
       /\ ~BackedUp

C5_Witness ==
  /\ result = "raised"
  /\ error = "asar pack"
  /\ \E n \in 1..Len(statuses) : statuses[n][2] = "applied"
  /\ pc = "exit"

\* The status a dry run gives where a real run gives `status`.
DryOf(status) == IF status = "applied" THEN "would_apply" ELSE status

\* The loop has ended: all rules ran, or one raised.
LoopEnded == pc = "printed" \/ (pc = "unwind" /\ RuleFailed)

\* C6 (as claimed): a real run and a dry run over the same bundle text give,
\* rule by rule, the same classification, and fail at the same rule.
C6_DryRunAgrees ==
  (~args.dry_run /\ LoopEnded)
    => \A dry \in {RunRules(original_js, TRUE)} :
         /\ dry.error = (IF result = "raised" THEN error ELSE "")
         /\ dry.statuses
              = [n \in 1..Len(statuses) |-> <<statuses[n][1], DryOf(statuses[n][2])>>]

\* C7: a dry run changes nothing: apply_rule returns its text unchanged, and the
\* bundle is not written, no tool is run on it, no backup is written and the
\* archive is not overwritten.
C7_DryRunPure ==
  args.dry_run
    => /\ (JustCalled /\ call.status # "error") => call.out = call.text
       /\ text = original_js
       /\ NothingPersisted
       /\ \A i \in 1..Len(kept) : kept[i].run # run

C7_Witness ==
  /\ args.dry_run
  /\ pc = "exit"
  /\ Len(statuses) = Len(patches)
  /\ \A n \in 1..Len(statuses) : statuses[n][2] = "would_apply"

AllAlready ==
  /\ Len(statuses) = Len(patches)
  /\ \A n \in 1..Len(statuses) : statuses[n][2] = "already"

\* C8: in a real run, a rule classified "already" is returned at line 72, before
\* subn is called; when every rule is "already" the text is the original text
\* and nothing is written, checked, packed, backed up or overwritten.
C8_NoOp ==
  ~args.dry_run
    => /\ (JustCalled /\ call.status = "already")
            => call.line = 72 /\ call.replaced = 0 /\ call.out = call.text
       /\ AllAlready
            => /\ text = original_js
               /\ NothingPersisted
               /\ pc \notin {"node_check", "beautify", "pack", "backup", "overwrite",
                             "overwriting", "keep", "leave", "summary"}

C8_Witness ==
  /\ ~args.dry_run
  /\ AllAlready
  /\ pc = "exit"
  /\ result = "returned"

NoChangesLine == <<"No changes to write (all patches already applied).">>

\* C9 (as claimed): a real run on the archive that a patching run has just
\* overwritten reports "no changes" and writes no backup and no archive.
C9_SecondRunNoChanges ==
  (previous = "patched" /\ ~args.dry_run /\ Did("extract") /\ pc = "exit")
    => /\ result = "returned"
       /\ stdout[Len(stdout)] = NoChangesLine
       /\ ~BackedUp
       /\ app_asar = start_asar

\* C10 (as claimed): when a rule raises, the statuses of the rules before it are
\* printed, no later rule is evaluated and nothing is written.
C10_PriorStatusesReported ==
  (RuleFailed /\ pc = "exit")
    => /\ stdout = statuses
       /\ NothingPersisted

\* C10 (amended): when a rule raises, the run aborts at that rule: nothing has
\* been printed (the statuses collected so far are dropped with the exception),
\* no later rule is evaluated and nothing is written.
C10_AbortAtFailingRule ==
  (call.rule # 0 /\ call.status = "error")
    => /\ RuleFailed /\ error = patches[call.rule].name
       /\ stdout = <<>>
       /\ rule = call.rule
       /\ Len(statuses) = rule - 1
       /\ pc \in {"unwind", "exit"}
       /\ NothingPersisted

C10_Witness ==
  /\ RuleFailed
  /\ pc = "exit"
  /\ Len(statuses) >= 2

\* C11 (as claimed): when js-beautify fails after the rules were applied and
\* node --check succeeded, the run still repacks, backs up and overwrites.
C11_BeautifyBestEffort ==
  (pc = "exit" /\ error = "js-beautify")
    => Did("asar pack") /\ BackedUp /\ Did("overwrite")

\* C11 (amended): a failure of js-beautify aborts the run.  The patched bundle
\* is not rolled back (it stays written in the temp directory until that is
\* deleted), but nothing is repacked, backed up or overwritten and the archive
\* is the original; asar pack is reached only after js-beautify succeeded or
\* with --no-beautify.
C11_BeautifyFailureAborts ==
  /\ error = "js-beautify"
       => /\ result = "raised" /\ pc \in {"unwind", "exit"}
          /\ ~args.no_beautify
          /\ Before("write bundle", "node --check")
          /\ pc = "unwind" => extracted.bundle = text /\ text # original_js
          /\ ~Did("asar pack") /\ ~Did("backup") /\ ~Did("overwrite")
          /\ tmp_out_asar = NoFile /\ ~BackedUp
          /\ app_asar = start_asar
  /\ (pc = "pack" /\ ~args.no_beautify)
       => Did("js-beautify") /\ extracted.beautified

C11_Witness ==
  /\ error = "js-beautify"
  /\ pc = "exit"
  /\ \E n \in 1..Len(statuses) : statuses[n][2] = "applied"

KeptThisRun == \E i \in 1..Len(kept) : kept[i].run = run /\ kept[i].tree.exists

\* C12 (as claimed): after every outcome of a run that extracted the archive,
\* the temporary directory no longer exists, unless --keep-extracted was given,
\* and then the extracted tree exists at the keep location.
C12_TempLifecycle ==
  (pc = "exit" /\ Did("extract"))
    => IF args.keep_extracted THEN KeptThisRun ELSE ~extracted.exists /\ ~KeptThisRun

OriginalBackedUp ==
  \E i \in 1..Len(backups) : backups[i].run = run /\ backups[i].content = start_asar

\* C13 (as claimed): in every reachable state the archive holds the complete
\* original bytes or the complete new bytes.
C13_AtomicSwap ==
  app_asar = start_asar \/ (tmp_out_asar.exists /\ app_asar = tmp_out_asar)

\* C13 (amended): the overwrite is not atomic.  From the moment line 305 opens
\* the archive until the write has ended, and for good when the write fails,
\* the archive holds a partial file; whenever the archive is not the complete
\* original, the backup written by this run holds the complete original.
C13_BackupCoversPartial ==
  /\ app_asar # start_asar
       => /\ Did("overwrite") /\ OriginalBackedUp
          /\ app_asar = PartialFile \/ (tmp_out_asar.exists /\ app_asar = tmp_out_asar)
  /\ (app_asar = PartialFile /\ start_asar # PartialFile)
       => \/ pc = "overwriting"
          \/ pc \in {"unwind", "exit"} /\ result = "raised" /\ error = "overwrite"
  /\ pc = "overwriting" => app_asar = PartialFile

C13_Witness ==
  /\ pc = "overwriting"
  /\ app_asar = PartialFile
  /\ start_asar # PartialFile
  /\ OriginalBackedUp

\* The patched matcher is present and matches (the "patched-state evidence").
PatchedEvidence(r, t) == r.has_patched /\ Search(r.patched, t)

\* C14: when the unpatched matcher has no match and there is no patched-state
\* evidence, apply_rule raises, in dry-run mode (line 79) and in real-run mode
\* (line 88); it returns no status.
C14_AbsentRaises ==
  JustCalled
    => ((~call.evidence /\ call.matches = 0)
        => /\ call.status = "error"
           /\ call.line = (IF call.dry_run THEN 79 ELSE 88)
           /\ result = "raised" /\ pc = "unwind"
           /\ error = patches[call.rule].name)

C14_Witness ==
  /\ JustCalled
  /\ call.dry_run
  /\ call.status = "error"
  /\ ~call.evidence
  /\ call.matches = 0

\* The orders in which the loop of lines 267-269 could take the rules.
Orders ==
  {o \in [1..Len(patches) -> 1..Len(patches)] :
     \A i, j \in 1..Len(patches) : o[i] = o[j] => i = j}

\* Lines 265-269 with the rules taken in the order `o`.
RECURSIVE LoopIn(_, _, _, _, _)

LoopInStep(o, t, k, dry_run, sts, r) ==
  IF r.status = "error"
  THEN [text |-> t, statuses |-> sts, error |-> patches[o[k]].name]
  ELSE LoopIn(o, r.text, k + 1, dry_run, sts \cup {<<patches[o[k]].name, r.status>>})

LoopIn(o, t, k, dry_run, sts) ==
  IF k > Len(patches)
  THEN [text |-> t, statuses |-> sts, error |-> ""]
  ELSE LoopInStep(o, t, k, dry_run, sts, apply_rule(t, patches[o[k]], dry_run))

\* C15 (as claimed): whatever the order of the rules, a real run over the same
\* bundle text ends with the same text and the same status for each rule (and
\* fails at the same rule, if it fails).
C15_OrderIndependent ==
  (~args.dry_run /\ LoopEnded)
    => \A o \in Orders :
         \A other \in {LoopIn(o, original_js, 1, FALSE, {})} :
           /\ other.error = (IF result = "raised" THEN error ELSE "")
           /\ other.error = "" =>
                /\ other.text = text
                /\ other.statuses = {statuses[n] : n \in 1..Len(statuses)}

SomeApplied == \E n \in 1..Len(statuses) : statuses[n][2] = "applied"

\* C16: in every run in which the bundle file is written or the archive is
\* overwritten, dry-run is off and some rule's status is "applied".
C16_PersistOnlyApplied ==
  (\/ Did("write bundle") \/ Did("overwrite")
   \/ app_asar # start_asar
   \/ extracted.exists /\ extracted.bundle # start_asar.bundle)
    => /\ ~args.dry_run
       /\ Len(statuses) = Len(patches)
       /\ SomeApplied

C16_Witness ==
  /\ pc = "node_check"
  /\ Did("write bundle")
  /\ extracted.bundle = text /\ text # start_asar.bundle
  /\ SomeApplied

\* C17 (as claimed): when a real run ends with the "No changes to write"
\* message, every rule's status in that run is "already"; equivalently, a real
\* run in which some rule is "applied" has changed the text.
C17_NoChangesMeansAlready ==
  /\ (stdout # <<>> /\ stdout[Len(stdout)] = NoChangesLine) => AllAlready
  /\ (~args.dry_run /\ Len(statuses) = Len(patches) /\ SomeApplied)
       => text # original_js

PrimaryAlready(r, t) == PatchedEvidence(r, t) /\ ~Search(r.unpatched, t)

\* The check of line 76 (dry run, after finditer) or line 85 (real run, after subn).
FallbackAlready(r, t, dry_run) ==
  /\ (IF dry_run THEN FindIterCount(r.unpatched, t) ELSE Subn(r, t).n) = 0
  /\ PatchedEvidence(r, t)

\* C19 (as claimed): there are a rule and a text that the fallback check
\* classifies as "already" and the primary check does not.
C19_FallbackMorePermissive ==
  \E n \in 1..Len(patches), t \in Bundles \cup {text, call.text}, d \in BOOLEAN :
    FallbackAlready(patches[n], t, d) /\ ~PrimaryAlready(patches[n], t)

\* C19 (amended): the fallback check is not more permissive: it holds of a rule
\* and a text exactly when the primary check does (no match counted is the same
\* as no match found), so apply_rule never returns at line 77 or line 86.
C19_FallbackEquivalent ==
  JustCalled
    => /\ (call.counted = 0 /\ call.evidence) <=> (call.evidence /\ ~call.found)
       /\ call.line \notin {77, 86}
       /\ call.status = "already" => call.line = 72

C19_Witness ==
  /\ JustCalled
  /\ call.dry_run
  /\ call.status = "already" /\ call.line = 72
  /\ call.counted = 0 /\ call.evidence

====
